---- MODULE Spec2Model ----
(***************************************************************************)
(* A model of conway.c: an ncurses Game of Life.  main() creates the board *)
(* from the display size, setUpBoard() lets the user paint cells,          *)
(* getTicksPerSecond() reads a rate, simulationLoop() runs doTick() until  *)
(* a tick changes nothing.                                                 *)
(*                                                                         *)
(* Arithmetic.  The program's `unsigned int` is a 32-bit pattern.  The     *)
(* model holds every such value as the two's-complement integer with the   *)
(* same pattern (4294967295 is held as -1): +, - and * agree modulo 2^32   *)
(* in both readings, and TLC stops with an overflow error should a result  *)
(* leave the 32-bit range.  The readings differ in comparison and          *)
(* division, for which UGreater, ULess and UDiv are used wherever the      *)
(* source compares or divides unsigned operands.  A conversion between     *)
(* `int` and `unsigned int` keeps the pattern, so it is not written.       *)
(***************************************************************************)
EXTENDS Integers, Sequences, FiniteSets, TLC

\* ---------------------------------------------------------------- bounds

\* Spec follows the whole program, setup included, on every display whose
\* board has at most SetupCells cells (rows * columns).
SetupCells == 6

\* SpecRun starts where setup hands over, from every configuration of every
\* board of at most MaxCells cells.
MaxCells == 9

\* doTick is entered only while the tick counter is below MaxTick.
MaxTick == 3

\* SpecRun also starts from the blocks and rows of three placed anywhere on
\* the boards of at most MaxSide rows and MaxSide columns.
MaxSide == 4

\* The display sizes of SpecGeom are 0..GeomMax in each direction.
GeomMax == 4

\* The orders of application are compared for up to MaxPending pending
\* changes (MaxPending! orders).
MaxPending == 6

\* ------------------------------------------------------- program constants

DEAD == 0

ALIVE == 1

EINVAL == 22

ERANGE == 34

\* Rows and columns main() takes off the display for the frame and prompt.
FrameRows == 3

FrameCols == 2

\* gameState.ticksPerSec as main() initialises it.
DefaultTicksPerSec == 2

USecPerSec == 1000000

\* ------------------------------------------------- unsigned int arithmetic

\* a < b, both read as unsigned patterns.
ULess(a, b) ==
    IF (a < 0) = (b < 0) THEN a < b ELSE b < 0

UGreater(a, b) == ULess(b, a)

\* a / b of unsigned operands, b # 0, a >= 0 as a pattern.
UDiv(a, b) ==
    IF b < 0 THEN 0 ELSE a \div b

\* ------------------------------------------------------------------ Board

Point(r, c) == [row |-> r, col |-> c]

\* calloc(n, sizeof(TileState)): n zeroed tiles.
calloc(n) == [i \in 0 .. n - 1 |-> DEAD]

\* The index the code computes for (row, col).
TileIndex(board, r, c) == r * board.ncols + c

\* board->tiles[row * board->ncols + col]
getTileState(board, r, c) == board.tiles[TileIndex(board, r, c)]

\* setTileState that will not count down to zero (a guard against the
\* unsigned count wrapping, off by one).
setTileState_GuardedDecrement(board, val, r, c) ==
    LET prev == board.tiles[TileIndex(board, r, c)]
        written == [board EXCEPT !.tiles[TileIndex(board, r, c)] = val]
    IN  IF prev = ALIVE /\ val = DEAD
          THEN IF board.nalive > 1
                 THEN [written EXCEPT !.nalive = @ - 1]
                 ELSE written
          ELSE IF prev = DEAD /\ val = ALIVE
                 THEN [written EXCEPT !.nalive = @ + 1]
                 ELSE written

\* setTileState that counts every write of ALIVE, whatever the tile was.
setTileState_CountsEveryAlive(board, val, r, c) ==
    LET prev == board.tiles[TileIndex(board, r, c)]
        written == [board EXCEPT !.tiles[TileIndex(board, r, c)] = val]
    IN  IF prev = ALIVE /\ val = DEAD
          THEN [written EXCEPT !.nalive = @ - 1]
          ELSE IF val = ALIVE
                 THEN [written EXCEPT !.nalive = @ + 1]
                 ELSE written

\* setTileState that forgets to count a tile that dies.
setTileState_NoDecrement(board, val, r, c) ==
    LET prev == board.tiles[TileIndex(board, r, c)]
        written == [board EXCEPT !.tiles[TileIndex(board, r, c)] = val]
    IN  IF prev = DEAD /\ val = ALIVE
          THEN [written EXCEPT !.nalive = @ + 1]
          ELSE written

setTileState(board, val, r, c) ==
    LET prev == board.tiles[TileIndex(board, r, c)]
        written == [board EXCEPT !.tiles[TileIndex(board, r, c)] = val]
    IN  IF prev = ALIVE /\ val = DEAD
          THEN [written EXCEPT !.nalive = @ - 1]
          ELSE IF prev = DEAD /\ val = ALIVE
                 THEN [written EXCEPT !.nalive = @ + 1]
                 ELSE written

\* ------------------------------------------------------- TileChangeStack

\* The stack is a sequence whose head is the top node.
pushTileChange(stack, change) == <<change>> \o stack

tileChangeStackIsEmpty(stack) == stack = <<>>

\* popTileChange returns the top change and leaves the rest.
popTileChange(stack) == [result |-> Head(stack), stack |-> Tail(stack)]

\* --------------------------------------------------------------- handleTile

\* const int offsets[8][2]
offsets ==
    << <<-1, -1>>, <<-1, 0>>, <<-1, 1>>, <<0, -1>>,
       <<0, 1>>, <<1, -1>>, <<1, 0>>, <<1, 1>> >>

\* int r = row + offsets[i][0]; int c = col + offsets[i][1];
NeighborAt(r, c, i) == Point(r + offsets[i][1], c + offsets[i][2])

\* The test with the column bound off by one (c > ncols for c > ncols - 1).
NeighborSkipped_ColumnOffByOne(board, p) ==
    \/ p.row < 0
    \/ UGreater(p.row, board.nrows - 1)
    \/ p.col < 0
    \/ UGreater(p.col, board.ncols)

\* The test under which handleTile skips a neighbour: r and c are ints, the
\* right-hand sides are unsigned, so each > compares unsigned patterns.
NeighborSkipped(board, p) ==
    \/ p.row < 0
    \/ UGreater(p.row, board.nrows - 1)
    \/ p.col < 0
    \/ UGreater(p.col, board.ncols - 1)

\* The offsets i whose neighbour handleTile reads through getTileState.
NeighborsRead(board, r, c) ==
    {i \in 1 .. 8 : ~NeighborSkipped(board, NeighborAt(r, c, i))}

\* The count over the four orthogonal neighbours only.
numAliveNeighbors_Orthogonal(board, r, c) ==
    Cardinality({i \in NeighborsRead(board, r, c) \cap {2, 4, 5, 7} :
                    getTileState(board, NeighborAt(r, c, i).row,
                                 NeighborAt(r, c, i).col) = ALIVE})

numAliveNeighbors(board, r, c) ==
    Cardinality({i \in NeighborsRead(board, r, c) :
                    getTileState(board, NeighborAt(r, c, i).row,
                                 NeighborAt(r, c, i).col) = ALIVE})

TileChange(r, c, newState) == [point |-> Point(r, c), newState |-> newState]

\* handleTile recording a change for a tile that survives as well.
handleTile_RecordsSurvivor(board, stack, r, c) ==
    LET currentState == getTileState(board, r, c)
        n == numAliveNeighbors(board, r, c)
    IN  IF currentState = ALIVE /\ n < 2
          THEN pushTileChange(stack, TileChange(r, c, DEAD))
          ELSE IF currentState = ALIVE /\ (n = 2 \/ n = 3)
                 THEN pushTileChange(stack, TileChange(r, c, ALIVE))
                 ELSE IF currentState = ALIVE /\ n > 3
                        THEN pushTileChange(stack, TileChange(r, c, DEAD))
                        ELSE IF currentState = DEAD /\ n = 3
                               THEN pushTileChange(stack, TileChange(r, c, ALIVE))
                               ELSE stack

\* handleTile letting a tile with three alive neighbours die.
handleTile_CrowdedAtThree(board, stack, r, c) ==
    LET currentState == getTileState(board, r, c)
        n == numAliveNeighbors(board, r, c)
    IN  IF currentState = ALIVE /\ n < 2
          THEN pushTileChange(stack, TileChange(r, c, DEAD))
          ELSE IF currentState = ALIVE /\ n = 2
                 THEN stack
                 ELSE IF currentState = ALIVE /\ n > 2
                        THEN pushTileChange(stack, TileChange(r, c, DEAD))
                        ELSE IF currentState = DEAD /\ n = 3
                               THEN pushTileChange(stack, TileChange(r, c, ALIVE))
                               ELSE stack

\* handleTile with the overpopulation test off by one (> 4 for > 3).
handleTile_Over4(board, stack, r, c) ==
    LET currentState == getTileState(board, r, c)
        n == numAliveNeighbors(board, r, c)
    IN  IF currentState = ALIVE /\ n < 2
          THEN pushTileChange(stack, TileChange(r, c, DEAD))
          ELSE IF currentState = ALIVE /\ n > 4
                 THEN pushTileChange(stack, TileChange(r, c, DEAD))
                 ELSE IF currentState = DEAD /\ n = 3
                        THEN pushTileChange(stack, TileChange(r, c, ALIVE))
                        ELSE stack

\* handleTile: the pending stack after the tile at (r, c) has been examined.
handleTile(board, stack, r, c) ==
    LET currentState == getTileState(board, r, c)
        n == numAliveNeighbors(board, r, c)
    IN  IF currentState = ALIVE /\ n < 2
          THEN pushTileChange(stack, TileChange(r, c, DEAD))
          ELSE IF currentState = ALIVE /\ (n = 2 \/ n = 3)
                 THEN stack
                 ELSE IF currentState = ALIVE /\ n > 3
                        THEN pushTileChange(stack, TileChange(r, c, DEAD))
                        ELSE IF currentState = DEAD /\ n = 3
                               THEN pushTileChange(stack, TileChange(r, c, ALIVE))
                               ELSE stack

\* ------------------------------------------------------- the board window

\* What derwin returns when it fails, NULL: a window of no cell, on which
\* wmove, waddch and box fail.
NullWindow ==
    [lines |-> 0, cols |-> 0, cury |-> 0, curx |-> 0,
     ch |-> [p \in {} |-> " "]]

\* stdscr after initscr on a display of y lines and x columns: blanks.
stdscr(y, x) ==
    IF y > 0 /\ x > 0
      THEN [lines |-> y, cols |-> x, cury |-> 0, curx |-> 0,
            ch |-> [p \in (0 .. y - 1) \X (0 .. x - 1) |-> " "]]
      ELSE NullWindow

\* derwin(orig, nlines, ncols, begy, begx): NULL for a negative size or
\* origin, for no parent, and for a window that would leave the parent; a
\* size of 0 stands for "to the end of the parent"; a window that still has
\* no line or no column is not made.  The window shares the parent's cells,
\* from (begy, begx) on, and its cursor is at its origin.
derwin(orig, nlines, ncols, begy, begx) ==
    IF \/ begy < 0 \/ begx < 0 \/ orig.lines = 0 \/ nlines < 0 \/ ncols < 0
       \/ begy + nlines > orig.lines \/ begx + ncols > orig.cols
      THEN NullWindow
      ELSE LET l == IF nlines = 0 THEN orig.lines - begy ELSE nlines
               w == IF ncols = 0 THEN orig.cols - begx ELSE ncols
           IN  IF l <= 0 \/ w <= 0
                 THEN NullWindow
                 ELSE [lines |-> l, cols |-> w, cury |-> 0, curx |-> 0,
                       ch |-> [p \in (0 .. l - 1) \X (0 .. w - 1) |->
                                 orig.ch[<<p[1] + begy, p[2] + begx>>]]]

\* box(win, 0, 0): the top and bottom lines ("q", ACS_HLINE), then the left
\* and right lines ("x", ACS_VLINE), then the corners ("l", "k", "m", "j"),
\* each drawn over what the earlier ones left.
box(win) ==
    [win EXCEPT !.ch =
        [p \in DOMAIN win.ch |->
            IF p[1] = win.lines - 1 /\ p[2] = win.cols - 1 THEN "j"
            ELSE IF p[1] = win.lines - 1 /\ p[2] = 0 THEN "m"
            ELSE IF p[1] = 0 /\ p[2] = win.cols - 1 THEN "k"
            ELSE IF p[1] = 0 /\ p[2] = 0 THEN "l"
            ELSE IF p[2] = 0 \/ p[2] = win.cols - 1 THEN "x"
            ELSE IF p[1] = 0 \/ p[1] = win.lines - 1 THEN "q"
            ELSE win.ch[p]]]

\* main's boardWin on a display of y lines and x columns, lines 286-297:
\* the window inside boardWinBox, whose cells it shares, once box has drawn
\* the border in them.
boardWin(y, x) ==
    derwin(box(derwin(stdscr(y, x), y - 1, x, 0, 0)),
           y - FrameRows, x - FrameCols, 1, 1)

\* wmove fails, leaving the cursor, for a position outside the window.
wmove(win, y, x) ==
    IF y >= 0 /\ y < win.lines /\ x >= 0 /\ x < win.cols
      THEN [win EXCEPT !.cury = y, !.curx = x]
      ELSE win

\* waddch writes at the cursor and advances it, wrapping to the next line;
\* at the bottom right corner the cursor stays.
waddch(win, c) ==
    IF win.lines = 0
      THEN win
      ELSE LET drawn == [win EXCEPT !.ch[<<win.cury, win.curx>>] = c]
           IN  IF win.curx + 1 < win.cols
                 THEN [drawn EXCEPT !.curx = @ + 1]
                 ELSE IF win.cury + 1 < win.lines
                        THEN [drawn EXCEPT !.cury = @ + 1, !.curx = 0]
                        ELSE drawn

\* mvwaddch is wmove then waddch, and draws nothing when the move fails.
mvwaddch(win, y, x, c) ==
    IF y >= 0 /\ y < win.lines /\ x >= 0 /\ x < win.cols
      THEN waddch(wmove(win, y, x), c)
      ELSE win

\* The marker doChanges and toggleTileState draw for a state.
Marker(state) == IF state = ALIVE THEN "X" ELSE " "

\* toggleTileState without its closing wmove: the window's cursor is left
\* where waddch advanced it.
toggleTileState_NoMoveBack(board, win, cur) ==
    LET current == getTileState(board, cur.row, cur.col)
        val == IF current = DEAD THEN ALIVE ELSE DEAD
    IN  [board |-> setTileState(board, val, cur.row, cur.col),
         win |-> waddch(win, Marker(val))]

\* toggleTileState on the board and window, the cursor at cur.
toggleTileState(board, win, cur) ==
    LET current == getTileState(board, cur.row, cur.col)
        val == IF current = DEAD THEN ALIVE ELSE DEAD
    IN  [board |-> setTileState(board, val, cur.row, cur.col),
         win |-> wmove(waddch(win, Marker(val)), cur.row, cur.col)]

\* ------------------------------------------------------------------ strtoul

\* An unsigned long is 64 bits, held as four 16-bit limbs, lowest first.
LimbBase == 65536

LimbHalf == 32768

ULongZero == <<0, 0, 0, 0>>

ULONG_MAX == <<LimbBase - 1, LimbBase - 1, LimbBase - 1, LimbBase - 1>>

Digits == {"0", "1", "2", "3", "4", "5", "6", "7", "8", "9"}

DigitValue(c) ==
    CASE c = "0" -> 0 [] c = "1" -> 1 [] c = "2" -> 2 [] c = "3" -> 3
      [] c = "4" -> 4 [] c = "5" -> 5 [] c = "6" -> 6 [] c = "7" -> 7
      [] c = "8" -> 8 [] c = "9" -> 9

\* acc * 10 + d with the carry out of the top limb.
MulAdd10(acc, d) ==
    LET t1 == acc[1] * 10 + d
        t2 == acc[2] * 10 + t1 \div LimbBase
        t3 == acc[3] * 10 + t2 \div LimbBase
        t4 == acc[4] * 10 + t3 \div LimbBase
    IN  [acc |-> <<t1 % LimbBase, t2 % LimbBase, t3 % LimbBase, t4 % LimbBase>>,
         carry |-> t4 \div LimbBase]

\* -acc modulo 2^64.
ULongNegate(acc) ==
    LET n1 == (LimbBase - 1 - acc[1]) + 1
        n2 == (LimbBase - 1 - acc[2]) + n1 \div LimbBase
        n3 == (LimbBase - 1 - acc[3]) + n2 \div LimbBase
        n4 == (LimbBase - 1 - acc[4]) + n3 \div LimbBase
    IN  <<n1 % LimbBase, n2 % LimbBase, n3 % LimbBase, n4 % LimbBase>>

\* unsigned int ticks = <unsigned long>: the low 32 bits, as a pattern.
ToUnsignedInt(acc) ==
    IF acc[2] >= LimbHalf
      THEN (acc[2] - LimbBase) * LimbBase + acc[1]
      ELSE acc[2] * LimbBase + acc[1]

\* The characters isspace holds for white space: the blank, TAB, LF, VT, FF
\* and CR.
WhiteSpace == {" ", "\t", "\n", "", "\f", "\r"}

RECURSIVE SkipSpace(_, _)
\* The first index at or after i that holds no white space.
SkipSpace(buf, i) ==
    IF i <= Len(buf) /\ buf[i] \in WhiteSpace THEN SkipSpace(buf, i + 1) ELSE i

RECURSIVE ScanDigits(_, _, _, _)
\* The digits from index i on: the value, whether it overflowed, and the
\* index after the last digit.
ScanDigits(buf, i, acc, over) ==
    IF i <= Len(buf) /\ buf[i] \in Digits
      THEN LET m == MulAdd10(acc, DigitValue(buf[i]))
           IN  ScanDigits(buf, i + 1, m.acc, over \/ m.carry > 0)
      ELSE [acc |-> acc, over |-> over, end |-> i]

\* strtoul(buf, &end, 10).  `end` is the index of the first character not
\* consumed (1 is buf itself); `range` tells that the value was out of range
\* (the result is ULONG_MAX and errno becomes ERANGE); `noconv` that no digit
\* was found, for which a C library may or may not set errno to EINVAL.
strtoul(buf) ==
    LET s == SkipSpace(buf, 1)
        neg == s <= Len(buf) /\ buf[s] = "-"
        d == IF s <= Len(buf) /\ buf[s] \in {"-", "+"} THEN s + 1 ELSE s
        n == ScanDigits(buf, d, ULongZero, FALSE)
    IN  IF n.end = d
          THEN [value |-> ULongZero, end |-> 1, range |-> FALSE, noconv |-> TRUE]
          ELSE IF n.over
                 THEN [value |-> ULONG_MAX, end |-> n.end, range |-> TRUE,
                       noconv |-> FALSE]
                 ELSE [value |-> IF neg THEN ULongNegate(n.acc) ELSE n.acc,
                       end |-> n.end, range |-> FALSE, noconv |-> FALSE]

\* -------------------------------------------------------------------- state

VARIABLES
    pc,              \* where the program is: the function it is in
    maxY, maxX,      \* getmaxyx(stdscr, maxY, maxX)
    logicalBoard,    \* gameState.logicalBoard: nrows, ncols, tiles, nalive
    logicalCur,      \* gameState.logicalCur
    physicalBoard,   \* the window gameState.physicalBoard
    promptWin,       \* what the prompt window was last asked to show
    ticksPerSec,     \* gameState.ticksPerSec
    tick,            \* gameState.tick
    pendingChanges,  \* gameState.pendingChanges
    errno,           \* the C library's errno
    scan,            \* doTick's loop variables row and col
    anyChanged,      \* doTick's anyChanged, the value it returns
    period_us,       \* simulationLoop's period_us
    tickStart,       \* history: logicalBoard as the running doTick found it
    ticksRun,        \* history: how many times doTick has been entered
    buf,             \* getTicksPerSecond's buf, the line wgetnstr read
    applied,         \* history: the changes doChanges applied in this tick
    boardCall        \* SpecBoard: the setTileState call its caller made last

vars ==
    <<pc, maxY, maxX, logicalBoard, logicalCur, physicalBoard, promptWin,
      ticksPerSec, tick, pendingChanges, errno, scan, anyChanged, period_us,
      tickStart, ticksRun, buf, applied, boardCall>>

\* The strings the user may type at the rate prompt, one character a cell.
RateInputs ==
    { <<>>, <<"0">>, <<"2">>, <<"x">>, <<"2", "x">>, <<"-", "1">>,
      <<"\t", "2">>,
      <<"4", "2", "9", "4", "9", "6", "7", "2", "9", "6">>,
      <<"9", "9", "9", "9", "9", "9", "9", "9", "9", "9",
        "9", "9", "9", "9", "9", "9", "9", "9", "9", "9">> }

\* errno is not cleared by the program, so getTicksPerSecond finds whatever
\* the library calls before it left there.
ErrnoAtStart == {0, EINVAL}

\* What an integer division by zero leaves in period_us when it does not
\* trap: 0 or all ones, by the processor.
DivideByZeroResults == {0, -1}

\* boardCall while the caller of the Board interface has made no call.
NoCall == [val |-> DEAD, row |-> 0, col |-> 0, prev |-> DEAD, made |-> FALSE]

\* main(), lines 283-312, and the prompt setUpBoard prints on entry, for a
\* display of y lines and x columns.
mainInit(y, x, e) ==
    /\ maxY = y
    /\ maxX = x
    /\ logicalBoard =
         [ncols |-> x - FrameCols,
          nrows |-> y - FrameRows,
          tiles |-> calloc((x - FrameCols) * (y - FrameRows)),
          nalive |-> 0]
    /\ physicalBoard = boardWin(y, x)
    /\ logicalCur = Point(0, 0)
    /\ ticksPerSec = DefaultTicksPerSec
    /\ promptWin = [text |-> "Use arrow keys and spacebar to set tiles", n |-> 0]
    /\ tick = 0
    /\ pendingChanges = <<>>
    /\ errno = e
    /\ pc = "setUpBoard"
    /\ scan = Point(0, 0)
    /\ anyChanged = FALSE
    /\ period_us = 0
    /\ tickStart = logicalBoard
    /\ ticksRun = 0
    /\ buf = <<>>
    /\ applied = 0
    /\ boardCall = NoCall

\* The display sizes whose board has at least one and at most n cells.
DisplaySizes(n) ==
    {d \in (FrameRows + 1 .. FrameRows + n) \X (FrameCols + 1 .. FrameCols + n) :
        (d[1] - FrameRows) * (d[2] - FrameCols) <= n}

Init ==
    \E d \in DisplaySizes(SetupCells), e \in ErrnoAtStart : mainInit(d[1], d[2], e)

\* --------------------------------------------------------------- setUpBoard

simVars == <<ticksPerSec, tick, pendingChanges, errno, scan, anyChanged,
             period_us, tickStart, ticksRun, buf, applied, boardCall>>

\* showCursor
showCursor(win, cur) == wmove(win, cur.row, cur.col)

\* KEY_RIGHT with the edge test off by one (ncols for ncols - 1).
curRight_PastEdge(board, cur) ==
    IF cur.col = board.ncols THEN cur ELSE [cur EXCEPT !.col = @ + 1]

\* The cursor after each arrow key; a key against the edge leaves it.
curRight(board, cur) ==
    IF cur.col = board.ncols - 1 THEN cur ELSE [cur EXCEPT !.col = @ + 1]

curLeft(board, cur) ==
    IF cur.col = 0 THEN cur ELSE [cur EXCEPT !.col = @ - 1]

curDown(board, cur) ==
    IF cur.row = board.nrows - 1 THEN cur ELSE [cur EXCEPT !.row = @ + 1]

curUp(board, cur) ==
    IF cur.row = 0 THEN cur ELSE [cur EXCEPT !.row = @ - 1]

\* An arrow key: the cursor moves and, when it moved, showCursor runs.
MoveCursor(to) ==
    /\ pc = "setUpBoard"
    /\ logicalCur' = to
    /\ physicalBoard' = IF to = logicalCur THEN physicalBoard
                        ELSE showCursor(physicalBoard, to)
    /\ UNCHANGED <<pc, maxY, maxX, logicalBoard, promptWin, simVars>>

\* How far a cursor that leaves the board is followed.
CursorCap == SetupCells + GeomMax

\* case KEY_RIGHT
KeyRight ==
    /\ logicalCur.col < CursorCap
    /\ MoveCursor(curRight(logicalBoard, logicalCur))

\* case KEY_LEFT
KeyLeft == MoveCursor(curLeft(logicalBoard, logicalCur))

\* case KEY_DOWN
KeyDown ==
    /\ logicalCur.row < CursorCap
    /\ MoveCursor(curDown(logicalBoard, logicalCur))

\* case KEY_UP
KeyUp == MoveCursor(curUp(logicalBoard, logicalCur))

\* Whether the tile under the cursor lies inside the allocated tiles.
CursorTileAllocated ==
    TileIndex(logicalBoard, logicalCur.row, logicalCur.col)
        \in DOMAIN logicalBoard.tiles

\* case ' ': toggleTileState, then wrefresh
KeySpace ==
    /\ pc = "setUpBoard"
    /\ CursorTileAllocated
    /\ LET t == toggleTileState(logicalBoard, physicalBoard, logicalCur)
       IN  /\ logicalBoard' = t.board
           /\ physicalBoard' = t.win
    /\ UNCHANGED <<pc, maxY, maxX, logicalCur, promptWin, simVars>>

\* Enter taking main straight to simulationLoop, the rate left at its
\* default (the call of getTicksPerSecond left out).
KeyEnter_SkipsRateEntry ==
    /\ pc = "setUpBoard"
    /\ pc' = "simulationLoop"
    /\ UNCHANGED <<maxY, maxX, logicalBoard, logicalCur, physicalBoard,
                   promptWin, simVars>>

\* case KEY_ENTER, '\n': setUpBoard returns true and main enters
\* getTicksPerSecond, which prints its prompt.
KeyEnter ==
    /\ pc = "setUpBoard"
    /\ pc' = "getTicksPerSecond"
    /\ promptWin' = [text |-> "Now type the desired ticks/sec", n |-> 0]
    /\ UNCHANGED <<maxY, maxX, logicalBoard, logicalCur, physicalBoard, simVars>>

\* case 'q': setUpBoard returns false and main goes to quit.
KeyQ ==
    /\ pc = "setUpBoard"
    /\ pc' = "quit"
    /\ UNCHANGED <<maxY, maxX, logicalBoard, logicalCur, physicalBoard,
                   promptWin, simVars>>

setUpBoard == KeyRight \/ KeyLeft \/ KeyDown \/ KeyUp \/ KeySpace \/ KeyEnter \/ KeyQ

\* -------------------------------------------------------- getTicksPerSecond

\* errno as getTicksPerSecond reads it after strtoul: ERANGE for a value out
\* of range; for no digits EINVAL when the C library sets it (setsEinval);
\* otherwise what it was.
errnoAfter(res, setsEinval, before) ==
    IF res.range THEN ERANGE
    ELSE IF res.noconv /\ setsEinval THEN EINVAL
    ELSE before

\* wgetnstr(gameState->promptWin, buf, 256): the user's line is in buf.
ReadRateLine ==
    /\ pc = "getTicksPerSecond"
    /\ pc' = "strtoul"
    /\ buf' \in RateInputs
    /\ UNCHANGED <<maxY, maxX, logicalBoard, logicalCur, physicalBoard,
                   promptWin, ticksPerSec, tick, pendingChanges, errno, scan,
                   anyChanged, period_us, tickStart, ticksRun, applied,
                   boardCall>>

\* The rest of the turn of getTicksPerSecond's loop, lines 180-192, on the
\* line in buf: the function returns false, returns true with the rate
\* stored, or prints "Invalid value" and reads again.  buf ends with the
\* function.
GetTicksPerSecond ==
    /\ pc = "strtoul"
    /\ \E setsEinval \in BOOLEAN :
         LET res == strtoul(buf)
             ticks == ToUnsignedInt(res.value)
             err == errnoAfter(res, setsEinval, errno)
         IN  /\ errno' = err
             /\ IF err = EINVAL \/ err = ERANGE
                  THEN /\ pc' = "quit"
                       /\ buf' = <<>>
                       /\ UNCHANGED <<ticksPerSec, promptWin>>
                  ELSE IF res.end # 1
                         THEN /\ ticksPerSec' = ticks
                              /\ pc' = "simulationLoop"
                              /\ buf' = <<>>
                              /\ UNCHANGED promptWin
                         ELSE /\ promptWin' = [text |-> "Invalid value", n |-> 0]
                              /\ pc' = "getTicksPerSecond"
                              /\ UNCHANGED <<buf, ticksPerSec>>
    /\ UNCHANGED <<maxY, maxX, logicalBoard, logicalCur, physicalBoard, tick,
                   pendingChanges, scan, anyChanged, period_us, tickStart,
                   ticksRun, applied, boardCall>>

\* ----------------------------------------------------------- simulationLoop

\* const int period_us = 1000000 / gameState->ticksPerSec;
SimulationLoop ==
    /\ pc = "simulationLoop"
    /\ ticksPerSec # 0
    /\ period_us' = UDiv(USecPerSec, ticksPerSec)
    /\ pc' = "doTick"
    /\ UNCHANGED <<maxY, maxX, logicalBoard, logicalCur, physicalBoard,
                   promptWin, ticksPerSec, tick, pendingChanges, errno, scan,
                   anyChanged, tickStart, ticksRun, buf, applied,
                   boardCall>>

\* The same line with ticksPerSec 0: the division is undefined; the program
\* is killed by the trap or goes on with what the processor left.
SimulationLoopDivideByZero ==
    /\ pc = "simulationLoop"
    /\ ticksPerSec = 0
    /\ \/ /\ pc' = "crashed"
          /\ UNCHANGED period_us
       \/ /\ pc' = "doTick"
          /\ period_us' \in DivideByZeroResults
    /\ UNCHANGED <<maxY, maxX, logicalBoard, logicalCur, physicalBoard,
                   promptWin, ticksPerSec, tick, pendingChanges, errno, scan,
                   anyChanged, tickStart, ticksRun, buf, applied,
                   boardCall>>

\* doTick's loop variables when the body of the inner loop first runs: row
\* and col are 0; on a board without a column the inner loop runs for no
\* row and the loops end with row at nrows.
scanStart(board) ==
    IF ULess(0, board.ncols) THEN Point(0, 0) ELSE Point(board.nrows, 0)

\* doTick counting the tick before it shows it (++tick for tick++).
DoTick_PreIncrement ==
    /\ pc = "doTick"
    /\ ULess(tick, MaxTick)
    /\ promptWin' = [text |-> "On tick", n |-> tick + 1]
    /\ tick' = tick + 1
    /\ scan' = scanStart(logicalBoard)
    /\ pc' = "scan"
    /\ tickStart' = logicalBoard
    /\ ticksRun' = ticksRun + 1
    /\ applied' = 0
    /\ UNCHANGED <<maxY, maxX, logicalBoard, logicalCur, physicalBoard,
                   ticksPerSec, pendingChanges, errno, anyChanged, period_us,
                   buf, boardCall>>

\* doTick, lines 248-252: the tick is shown and counted, the scan starts.
DoTick ==
    /\ pc = "doTick"
    /\ ULess(tick, MaxTick)
    /\ promptWin' = [text |-> "On tick", n |-> tick]
    /\ tick' = tick + 1
    /\ scan' = scanStart(logicalBoard)
    /\ pc' = "scan"
    /\ tickStart' = logicalBoard
    /\ ticksRun' = ticksRun + 1
    /\ applied' = 0
    /\ UNCHANGED <<maxY, maxX, logicalBoard, logicalCur, physicalBoard,
                   ticksPerSec, pendingChanges, errno, anyChanged, period_us,
                   buf, boardCall>>

\* The loop variables after the body ran at p, when the body next runs or
\* the loops are over: the next column, or the start of the next row.
scanNext(board, p) ==
    IF ULess(p.col + 1, board.ncols)
      THEN Point(p.row, p.col + 1)
      ELSE Point(p.row + 1, 0)

\* The scan writing each change to the board as soon as it is decided.
HandleTile_InPlace ==
    /\ pc = "scan"
    /\ ULess(scan.row, logicalBoard.nrows)
    /\ ULess(scan.col, logicalBoard.ncols)
    /\ LET st == handleTile(logicalBoard, pendingChanges, scan.row, scan.col)
       IN  /\ pendingChanges' = st
           /\ logicalBoard' =
                IF st = pendingChanges THEN logicalBoard
                ELSE setTileState(logicalBoard, Head(st).newState, scan.row, scan.col)
    /\ scan' = scanNext(logicalBoard, scan)
    /\ UNCHANGED <<pc, maxY, maxX, logicalCur, physicalBoard,
                   promptWin, ticksPerSec, tick, errno, anyChanged, period_us,
                   tickStart, ticksRun, buf, applied, boardCall>>

\* One turn of doTick's inner loop: handleTile(gameState, row, col).
HandleTile ==
    /\ pc = "scan"
    /\ ULess(scan.row, logicalBoard.nrows)
    /\ ULess(scan.col, logicalBoard.ncols)
    /\ pendingChanges' = handleTile(logicalBoard, pendingChanges, scan.row, scan.col)
    /\ scan' = scanNext(logicalBoard, scan)
    /\ UNCHANGED <<pc, maxY, maxX, logicalBoard, logicalCur, physicalBoard,
                   promptWin, ticksPerSec, tick, errno, anyChanged, period_us,
                   tickStart, ticksRun, buf, applied, boardCall>>

\* doTick reporting a change whether or not one was recorded.
DoTickScanned_AlwaysChanged ==
    /\ pc = "scan"
    /\ ~ULess(scan.row, logicalBoard.nrows)
    /\ anyChanged' = TRUE
    /\ pc' = IF tileChangeStackIsEmpty(pendingChanges) THEN "loopTest" ELSE "doChanges"
    /\ UNCHANGED <<maxY, maxX, logicalBoard, logicalCur, physicalBoard,
                   promptWin, ticksPerSec, tick, pendingChanges, errno, scan,
                   period_us, tickStart, ticksRun, buf, applied, boardCall>>

\* doTick reporting a change only when more than one was recorded.
DoTickScanned_MoreThanOne ==
    /\ pc = "scan"
    /\ ~ULess(scan.row, logicalBoard.nrows)
    /\ anyChanged' = (Len(pendingChanges) > 1)
    /\ pc' = IF tileChangeStackIsEmpty(pendingChanges) THEN "loopTest" ELSE "doChanges"
    /\ UNCHANGED <<maxY, maxX, logicalBoard, logicalCur, physicalBoard,
                   promptWin, ticksPerSec, tick, pendingChanges, errno, scan,
                   period_us, tickStart, ticksRun, buf, applied, boardCall>>

\* doTick, lines 257-258, when the loops are over.
DoTickScanned ==
    /\ pc = "scan"
    /\ ~ULess(scan.row, logicalBoard.nrows)
    /\ anyChanged' = ~tileChangeStackIsEmpty(pendingChanges)
    /\ pc' = IF tileChangeStackIsEmpty(pendingChanges) THEN "loopTest" ELSE "doChanges"
    /\ UNCHANGED <<maxY, maxX, logicalBoard, logicalCur, physicalBoard,
                   promptWin, ticksPerSec, tick, pendingChanges, errno, scan,
                   period_us, tickStart, ticksRun, buf, applied, boardCall>>

\* The body of doChanges' loop on one change: the board and the window after.
applyChange(board, win, change) ==
    [board |-> setTileState(board, change.newState, change.point.row,
                            change.point.col),
     win |-> mvwaddch(win, change.point.row, change.point.col,
                      Marker(change.newState))]

\* doChanges applying the top change only (if for while).
DoChanges_OnlyTop ==
    /\ pc = "doChanges"
    /\ LET popped == popTileChange(pendingChanges)
           a == applyChange(logicalBoard, physicalBoard, popped.result)
       IN  /\ pendingChanges' = popped.stack
           /\ logicalBoard' = a.board
           /\ physicalBoard' = a.win
           /\ pc' = "loopTest"
    /\ applied' = applied + 1
    /\ UNCHANGED <<maxY, maxX, logicalCur, promptWin, ticksPerSec, tick, errno,
                   scan, anyChanged, period_us, tickStart, ticksRun, buf,
                   boardCall>>

\* One turn of doChanges' loop; after the last, doTick returns.
DoChanges ==
    /\ pc = "doChanges"
    /\ LET popped == popTileChange(pendingChanges)
           a == applyChange(logicalBoard, physicalBoard, popped.result)
       IN  /\ pendingChanges' = popped.stack
           /\ logicalBoard' = a.board
           /\ physicalBoard' = a.win
           /\ pc' = IF tileChangeStackIsEmpty(popped.stack)
                      THEN "loopTest" ELSE "doChanges"
    /\ applied' = applied + 1
    /\ UNCHANGED <<maxY, maxX, logicalCur, promptWin, ticksPerSec, tick, errno,
                   scan, anyChanged, period_us, tickStart, ticksRun, buf,
                   boardCall>>

\* The number a bool is when doTick's result is read as one: 1 or 0.
boolValue(b) == IF b THEN 1 ELSE 0

\* while (doTick(gameState)) usleep(period_us): the tick changed something.
SimulationLoopAgain ==
    /\ pc = "loopTest"
    /\ anyChanged
    /\ pc' = "doTick"
    /\ UNCHANGED <<maxY, maxX, logicalBoard, logicalCur, physicalBoard,
                   promptWin, ticksPerSec, tick, pendingChanges, errno, scan,
                   anyChanged, period_us, tickStart, ticksRun, buf, applied,
                   boardCall>>

\* The number main prints in "Terminated after %d ticks".
terminatedAfter(t) == t + 1

\* doTick returned false: simulationLoop returns and main prints the count.
SimulationLoopExit ==
    /\ pc = "loopTest"
    /\ ~anyChanged
    /\ pc' = "halted"
    /\ promptWin' = [text |-> "Terminated after", n |-> terminatedAfter(tick)]
    /\ UNCHANGED <<maxY, maxX, logicalBoard, logicalCur, physicalBoard,
                   ticksPerSec, tick, pendingChanges, errno, scan, anyChanged,
                   period_us, tickStart, ticksRun, buf, applied, boardCall>>

\* while (getch() != 'q') {}: 'q' ends the program.
KeyQAtEnd ==
    /\ pc = "halted"
    /\ pc' = "quit"
    /\ UNCHANGED <<maxY, maxX, logicalBoard, logicalCur, physicalBoard,
                   promptWin, ticksPerSec, tick, pendingChanges, errno, scan,
                   anyChanged, period_us, tickStart, ticksRun, buf, applied,
                   boardCall>>

simulationLoop ==
    \/ SimulationLoop
    \/ SimulationLoopDivideByZero
    \/ DoTick
    \/ HandleTile
    \/ DoTickScanned
    \/ DoChanges
    \/ SimulationLoopAgain
    \/ SimulationLoopExit

\* What follows setup: rate entry, the simulation, the wait for 'q'.
RunNext == ReadRateLine \/ GetTicksPerSecond \/ simulationLoop \/ KeyQAtEnd

Next == setUpBoard \/ RunNext

Spec == Init /\ [][Next]_vars

\* ------------------------------------------------- runs from a painted board

\* The board and window setUpBoard leaves when the user has made exactly the
\* tiles in cells alive and brought the cursor back to the origin.
painted(board, win, cells) ==
    [board |->
        [board EXCEPT
            !.tiles = [i \in DOMAIN board.tiles |->
                          IF <<i \div board.ncols, i % board.ncols>> \in cells
                            THEN ALIVE ELSE DEAD],
            !.nalive = Cardinality(cells)],
     win |-> [win EXCEPT !.ch = [p \in DOMAIN win.ch |->
                                    IF p \in cells THEN "X" ELSE " "]]]

\* The 2x2 blocks and the horizontal rows of three that fit a board.
Block(r, c) == {<<r, c>>, <<r, c + 1>>, <<r + 1, c>>, <<r + 1, c + 1>>}

RowOfThree(r, c) == {<<r, c>>, <<r, c + 1>>, <<r, c + 2>>}

ColumnOfThree(r, c) == {<<r, c>>, <<r + 1, c>>, <<r + 2, c>>}

PatternsOn(rows, cols) ==
    {Block(r, c) : r \in 0 .. rows - 2, c \in 0 .. cols - 2}
      \cup {RowOfThree(r, c) : r \in 0 .. rows - 1, c \in 0 .. cols - 3}

\* The configurations SpecRun starts from on a board: all of them on a board
\* of at most MaxCells cells, the patterns on a larger one.
StartCells(rows, cols) ==
    IF rows * cols <= MaxCells
      THEN SUBSET ((0 .. rows - 1) \X (0 .. cols - 1))
      ELSE PatternsOn(rows, cols)

RunSizes ==
    DisplaySizes(MaxCells)
      \cup ((FrameRows + 1 .. FrameRows + MaxSide)
              \X (FrameCols + 1 .. FrameCols + MaxSide))

\* The state in which main calls getTicksPerSecond: setUpBoard has returned
\* true and the rate prompt is shown.
InitRun ==
    \E d \in RunSizes, e \in ErrnoAtStart :
      \E cells \in StartCells(d[1] - FrameRows, d[2] - FrameCols) :
        LET b0 == [ncols |-> d[2] - FrameCols,
                   nrows |-> d[1] - FrameRows,
                   tiles |-> calloc((d[2] - FrameCols) * (d[1] - FrameRows)),
                   nalive |-> 0]
            p == painted(b0, boardWin(d[1], d[2]), cells)
        IN  /\ maxY = d[1]
            /\ maxX = d[2]
            /\ logicalBoard = p.board
            /\ physicalBoard = p.win
            /\ logicalCur = Point(0, 0)
            /\ ticksPerSec = DefaultTicksPerSec
            /\ promptWin = [text |-> "Now type the desired ticks/sec", n |-> 0]
            /\ tick = 0
            /\ pendingChanges = <<>>
            /\ errno = e
            /\ pc = "getTicksPerSecond"
            /\ scan = Point(0, 0)
            /\ anyChanged = FALSE
            /\ period_us = 0
            /\ tickStart = b0
            /\ ticksRun = 0
            /\ buf = <<>>
            /\ applied = 0
            /\ boardCall = NoCall

SpecRun == InitRun /\ [][RunNext]_vars

\* ------------------------------------------------ setup on any display size

\* The toggle when the cursor's tile lies outside the allocated tiles: the
\* read and the write are outside the array, and what the program does from
\* there on is undefined; the model follows it no further.
KeySpaceOutOfBounds ==
    /\ pc = "setUpBoard"
    /\ ~CursorTileAllocated
    /\ pc' = "undefined"
    /\ UNCHANGED <<maxY, maxX, logicalBoard, logicalCur, physicalBoard,
                   promptWin, simVars>>

\* Every display size up to GeomMax lines and columns, the sizes too small
\* for the frame included, for which the tile count the code computes,
\* ncols * nrows modulo 2^32, is at most SetupCells.
GeomSizes ==
    {d \in (0 .. GeomMax) \X (0 .. GeomMax) :
        (d[2] - FrameCols) * (d[1] - FrameRows) \in 0 .. SetupCells}

InitGeom ==
    \E d \in GeomSizes, e \in ErrnoAtStart : mainInit(d[1], d[2], e)

GeomNext == setUpBoard \/ KeySpaceOutOfBounds

\* The setup phase on any display size.
SpecGeom == InitGeom /\ [][GeomNext]_vars

\* ------------------------------------------------- the Board's operations

\* A caller of the Board calls setTileState with any state at any tile of
\* the board; boardCall keeps the arguments and the function's prev.
SetTileState ==
    /\ pc = "setUpBoard"
    /\ \E val \in {DEAD, ALIVE}, r \in 0 .. logicalBoard.nrows - 1,
          c \in 0 .. logicalBoard.ncols - 1 :
         /\ logicalBoard' = setTileState(logicalBoard, val, r, c)
         /\ boardCall' = [val |-> val, row |-> r, col |-> c,
                          prev |-> getTileState(logicalBoard, r, c),
                          made |-> TRUE]
    /\ UNCHANGED <<pc, maxY, maxX, logicalCur, physicalBoard, promptWin,
                   ticksPerSec, tick, pendingChanges, errno, scan, anyChanged,
                   period_us, tickStart, ticksRun, buf, applied>>

\* The board main creates, written by any sequence of setTileState calls.
SpecBoard == Init /\ [][SetTileState]_vars

\* ------------------------------------------------------------ the reference

\* The Game of Life step stated on coordinates, against which the tick is
\* checked: a neighbour is one of the up to eight adjacent cells of the grid.
RefCells(board) == (0 .. board.nrows - 1) \X (0 .. board.ncols - 1)

RefAlive(board, r, c) ==
    /\ <<r, c>> \in RefCells(board)
    /\ board.tiles[r * board.ncols + c] = ALIVE

RefNeighbours(board, r, c) ==
    Cardinality({d \in ({-1, 0, 1} \X {-1, 0, 1}) \ {<<0, 0>>} :
                    RefAlive(board, r + d[1], c + d[2])})

RefNextState(board, r, c) ==
    IF RefAlive(board, r, c)
      THEN IF RefNeighbours(board, r, c) \in {2, 3} THEN ALIVE ELSE DEAD
      ELSE IF RefNeighbours(board, r, c) = 3 THEN ALIVE ELSE DEAD

RefStep(board) ==
    [i \in DOMAIN board.tiles |->
        RefNextState(board, i \div board.ncols, i % board.ncols)]

\* The coordinates of the alive tiles of a board.
AliveCells(board) == {p \in RefCells(board) : RefAlive(board, p[1], p[2])}

\* The number of ALIVE entries found by scanning the tiles.
CountAlive(board) ==
    Cardinality({i \in DOMAIN board.tiles : board.tiles[i] = ALIVE})

\* ---------------------------------------------------------------------- C1

\* C1: when doTick has returned, the board equals the reference synchronous
\* B3/S23 step of the board the tick started from.
C1_TickIsLifeStep ==
    pc = "loopTest" => logicalBoard.tiles = RefStep(tickStart)

\* A tick has returned on a three by three board where a tile died of
\* overpopulation, a tile was born and a tile survived.
C1_Witness ==
    /\ pc = "loopTest"
    /\ logicalBoard.nrows = 3 /\ logicalBoard.ncols = 3
    /\ \E p \in RefCells(tickStart) :
         RefAlive(tickStart, p[1], p[2]) /\ RefNeighbours(tickStart, p[1], p[2]) > 3
           /\ ~RefAlive(logicalBoard, p[1], p[2])
    /\ \E p \in RefCells(tickStart) :
         ~RefAlive(tickStart, p[1], p[2]) /\ RefAlive(logicalBoard, p[1], p[2])
    /\ \E p \in RefCells(tickStart) :
         RefAlive(tickStart, p[1], p[2]) /\ RefAlive(logicalBoard, p[1], p[2])

\* ---------------------------------------------------------------------- C2

\* C2: the loop leaves for the halt exactly after a tick that changed no
\* tile: a tick that changed a tile is followed by another tick, a tick
\* that changed none by the halt, the halt is reached in no other way, and
\* so every tick before the last changed a tile and the last changed none.
C2_HaltsAtFirstFixedPoint ==
    /\ [](pc = "doTick" /\ ticksRun > 0 => logicalBoard.tiles # tickStart.tiles)
    /\ [](pc = "halted" => ticksRun > 0 /\ logicalBoard.tiles = tickStart.tiles)
    /\ [][/\ pc = "loopTest" /\ logicalBoard.tiles # tickStart.tiles
               => pc' = "doTick"
          /\ pc = "loopTest" /\ logicalBoard.tiles = tickStart.tiles
               => pc' = "halted"
          /\ pc' = "halted" /\ pc # "halted" => pc = "loopTest"]_vars

\* The loop has halted after a tick that changed nothing, which followed
\* ticks that changed the board.
C2_Witness ==
    /\ pc = "halted"
    /\ ticksRun = 3
    /\ logicalBoard.nalive > 0

\* ---------------------------------------------------------------------- C3

\* C3: in every state, between the writes of an apply phase too, nalive is
\* the number of ALIVE tiles and has not wrapped below zero.
C3_NaliveCountsAliveTiles ==
    /\ logicalBoard.nalive = CountAlive(logicalBoard)
    /\ logicalBoard.nalive >= 0

\* Between two writes of an apply phase, on a board the user painted.
C3_Witness ==
    /\ pc = "doChanges"
    /\ pendingChanges # <<>>
    /\ logicalBoard.tiles # tickStart.tiles
    /\ logicalBoard.nalive > 0
    /\ logicalBoard.nalive # tickStart.nalive

\* ---------------------------------------------------------------------- C4

\* The cells doTick's loops have passed when the next to examine is p.
Scanned(board, p) ==
    {q \in RefCells(board) : q[1] < p.row \/ (q[1] = p.row /\ q[2] < p.col)}

\* C4: throughout the scan the board is the board the tick started from,
\* and the pending changes are those the reference step makes, on that
\* board, to the cells passed so far.
C4_ScanLeavesBoard ==
    pc = "scan" =>
      /\ logicalBoard = tickStart
      /\ {<<pendingChanges[i].point.row, pendingChanges[i].point.col,
            pendingChanges[i].newState>> : i \in 1 .. Len(pendingChanges)}
           = {<<q[1], q[2], RefNextState(tickStart, q[1], q[2])>> :
                q \in {q \in Scanned(tickStart, scan) :
                         RefNextState(tickStart, q[1], q[2])
                           # getTileState(tickStart, q[1], q[2])}}

\* In the middle of a scan, the cell to examine next has a neighbour whose
\* change is already pending.
C4_Witness ==
    /\ pc = "scan"
    /\ ULess(scan.row, logicalBoard.nrows)
    /\ \E i \in 1 .. Len(pendingChanges) :
         /\ pendingChanges[i].point.row - scan.row \in {-1, 0}
         /\ pendingChanges[i].point.col - scan.col \in {-1, 0, 1}

\* ---------------------------------------------------------------------- C5

\* C5: simulationLoop is never entered with a tick rate of zero.
C5_ZeroRateRejected ==
    pc = "simulationLoop" => ticksPerSec # 0

\* ---------------------------------------------------------------------- C6

\* C6: setup never operates on a board whose display left it no row or no
\* column: the dimensions are positive, also when read as unsigned.
C6_DimensionsPositive ==
    pc = "setUpBoard" =>
      /\ maxY - FrameRows > 0
      /\ maxX - FrameCols > 0
      /\ ULess(0, logicalBoard.nrows)
      /\ ULess(0, logicalBoard.ncols)

\* ---------------------------------------------------------------------- C7

\* C7: the count shown at the halt is the number of ticks executed.
C7_ReportedTicksAreTicksRun ==
    pc = "halted" => promptWin.n = ticksRun

\* ---------------------------------------------------------------------- C8

\* C8 as claimed: one tick turns the row (0,0),(0,1),(0,2) into the column of
\* three centred on (0,1).
C8_TopRowBlinker ==
    pc = "loopTest" /\ AliveCells(tickStart) = RowOfThree(0, 0)
      => AliveCells(logicalBoard) = ColumnOfThree(-1, 1)

\* C8 amended: a row of three that has a row of the board above and below it
\* becomes, in one tick, the column of three centred on its middle cell, and
\* that column becomes the row again in one tick.
C8_InteriorBlinker ==
    pc = "loopTest" =>
      \A r \in 1 .. logicalBoard.nrows - 2, c \in 0 .. logicalBoard.ncols - 3 :
        /\ AliveCells(tickStart) = RowOfThree(r, c)
             => AliveCells(logicalBoard) = ColumnOfThree(r - 1, c + 1)
        /\ AliveCells(tickStart) = ColumnOfThree(r - 1, c + 1)
             => AliveCells(logicalBoard) = RowOfThree(r, c)

\* The second tick has returned: the column (0,1),(1,1),(2,1) is again the
\* row (1,0),(1,1),(1,2).
C8_Witness ==
    /\ pc = "loopTest"
    /\ ticksRun = 2
    /\ AliveCells(tickStart) = ColumnOfThree(0, 1)
    /\ AliveCells(logicalBoard) = RowOfThree(1, 0)

\* ---------------------------------------------------------------------- C9

\* C9: a tick that starts from a lone 2x2 block, wherever it lies, records
\* no pending change, reports no change and leaves the board as it was.
C9_BlockIsFixedPoint ==
    (/\ pc \in {"scan", "doChanges", "loopTest", "halted"}
     /\ \E r \in 0 .. tickStart.nrows - 2, c \in 0 .. tickStart.ncols - 2 :
          AliveCells(tickStart) = Block(r, c))
      => /\ pendingChanges = <<>>
         /\ pc # "doChanges"
         /\ pc \in {"loopTest", "halted"} => ~anyChanged
         /\ logicalBoard = tickStart

\* The loop has halted on a block in the interior of a four by four board.
C9_Witness ==
    /\ pc = "halted"
    /\ logicalBoard.nrows = 4 /\ logicalBoard.ncols = 4
    /\ AliveCells(logicalBoard) = Block(1, 1)
    /\ ticksRun = 1

\* --------------------------------------------------------------------- C10

\* C10: for every cell the scan comes to, corner and edge cells too, each
\* neighbour handleTile reads lies on the grid and inside the tiles, and the
\* count it makes is the number of alive cells among the adjacent cells of
\* the grid.
C10_NeighbourReadsInBounds ==
    pc = "scan" /\ ULess(scan.row, logicalBoard.nrows) =>
      /\ \A i \in NeighborsRead(logicalBoard, scan.row, scan.col) :
           LET q == NeighborAt(scan.row, scan.col, i)
           IN  /\ 0 <= q.row /\ q.row < logicalBoard.nrows
               /\ 0 <= q.col /\ q.col < logicalBoard.ncols
               /\ TileIndex(logicalBoard, q.row, q.col) \in DOMAIN logicalBoard.tiles
      /\ numAliveNeighbors(logicalBoard, scan.row, scan.col)
           = RefNeighbours(logicalBoard, scan.row, scan.col)

\* The scan is at the bottom right corner of a board of several rows and
\* columns: three neighbours are read, one of them alive.
C10_Witness ==
    /\ pc = "scan"
    /\ logicalBoard.nrows >= 2 /\ logicalBoard.ncols >= 2
    /\ scan = Point(logicalBoard.nrows - 1, logicalBoard.ncols - 1)
    /\ Cardinality(NeighborsRead(logicalBoard, scan.row, scan.col)) = 3
    /\ numAliveNeighbors(logicalBoard, scan.row, scan.col) >= 1

\* --------------------------------------------------------------------- C11

\* The tiles in which two boards of the same size differ.
DiffCells(a, b) == {i \in DOMAIN a.tiles : a.tiles[i] # b.tiles[i]}

\* A board the transition rule leaves as it is.
FixedPoint(board) == RefStep(board) = board.tiles

\* C11 as claimed: the value doTick returns is the number of pending changes
\* it applied, which is the number of tiles that differ between the board
\* before and after the tick, and it is 0 exactly when the board before the
\* tick is a fixed point of the rule.
C11_ReturnsChangeCount ==
    pc = "loopTest" =>
      /\ boolValue(anyChanged) = applied
      /\ applied = Cardinality(DiffCells(tickStart, logicalBoard))
      /\ boolValue(anyChanged) = 0 <=> FixedPoint(tickStart)

\* C11 amended: doTick returns whether it applied any pending change, true
\* exactly when the number applied is positive; the number applied is the
\* number of tiles that differ between the board before and after the tick;
\* and the result is false exactly when the board before the tick is a
\* fixed point of the rule.
C11_ReturnsWhetherChanged ==
    pc = "loopTest" =>
      /\ anyChanged <=> applied > 0
      /\ applied = Cardinality(DiffCells(tickStart, logicalBoard))
      /\ ~anyChanged <=> FixedPoint(tickStart)

\* A tick has returned true after applying four changes, two births and two
\* deaths.
C11_Witness ==
    /\ pc = "loopTest"
    /\ anyChanged
    /\ applied = 4
    /\ logicalBoard.nalive = tickStart.nalive
    /\ Cardinality(DiffCells(tickStart, logicalBoard)) = 4

\* --------------------------------------------------------------------- C12

\* A line that is a positive integer a rate can hold: digits only, at least
\* one, their value in 1 .. 4294967295.
PositiveInteger(line) ==
    LET n == ScanDigits(line, 1, ULongZero, FALSE)
    IN  /\ Len(line) > 0
        /\ n.end = Len(line) + 1
        /\ ~n.over
        /\ n.acc[3] = 0 /\ n.acc[4] = 0
        /\ n.acc # ULongZero

\* C12: a line that is not a positive integer is a recoverable parse
\* failure: getTicksPerSecond asks again, the rate is left as it was, and
\* the line is neither accepted nor taken for the cancel that ends the
\* program.
C12_MalformedRateReprompts ==
    [][pc = "strtoul" /\ ~PositiveInteger(buf)
         => /\ pc' = "getTicksPerSecond"
            /\ ticksPerSec' = ticksPerSec]_vars

\* --------------------------------------------------------------------- C13

\* C13: the tick counter starts at 0 and is the number of ticks executed;
\* it changes only when doTick is entered, and then by one; and the index
\* doTick shows on its k-th entry is k - 1, so the indices shown are
\* 0, 1, 2, ... in order, and nothing else shows a tick index.
C13_TickCounterCountsTicks ==
    /\ tick = 0
    /\ [](tick = ticksRun)
    /\ [][/\ tick' >= tick
          /\ tick' # tick => pc = "doTick" /\ tick' = tick + 1
          /\ pc = "doTick" /\ pc' = "scan"
               => /\ promptWin' = [text |-> "On tick", n |-> ticksRun]
                  /\ tick' = tick + 1
          /\ promptWin' # promptWin /\ promptWin'.text = "On tick"
               => pc = "doTick"]_vars

\* The third tick has returned: the counter is 3 and the index shown last
\* is 2.
C13_Witness ==
    /\ pc = "loopTest"
    /\ ticksRun = 3
    /\ tick = 3
    /\ promptWin = [text |-> "On tick", n |-> 2]

\* --------------------------------------------------------------------- C14

\* C14: a call of setTileState whose state is the state the tile has leaves
\* nalive and every tile as they were; and after any call, the same call
\* again changes nothing, so the write made twice is the write made once.
C14_SameStateWriteIsNoOp ==
    [][boardCall'.made =>
         /\ boardCall'.prev = boardCall'.val => logicalBoard' = logicalBoard
         /\ setTileState(logicalBoard', boardCall'.val, boardCall'.row,
                         boardCall'.col) = logicalBoard']_vars

\* setTileState has just been called with ALIVE on a tile that was ALIVE,
\* on a board with two alive tiles.
C14_Witness ==
    /\ boardCall.made
    /\ boardCall.val = ALIVE
    /\ boardCall.prev = ALIVE
    /\ logicalBoard.nalive = 2
    /\ getTileState(logicalBoard, boardCall.row, boardCall.col) = ALIVE

\* --------------------------------------------------------------------- C15

\* C15: in every state of a tick no two pending changes are for the same
\* tile, and every pending change carries a state that differs from the
\* state its tile has on the board.
C15_PendingChangesDistinctAndReal ==
    /\ \A i, j \in 1 .. Len(pendingChanges) :
         i # j => pendingChanges[i].point # pendingChanges[j].point
    /\ \A i \in 1 .. Len(pendingChanges) :
         pendingChanges[i].newState
           # getTileState(logicalBoard, pendingChanges[i].point.row,
                          pendingChanges[i].point.col)

\* In the apply phase, changes applied and at least three still pending,
\* births and deaths among them.
C15_Witness ==
    /\ pc = "doChanges"
    /\ applied >= 1
    /\ Len(pendingChanges) >= 3
    /\ \E i, j \in 1 .. Len(pendingChanges) :
         pendingChanges[i].newState = ALIVE /\ pendingChanges[j].newState = DEAD

\* --------------------------------------------------------------------- C16

\* C16: the pending stack holds changes only inside doTick, between the
\* start of its scan and the end of its apply phase: it is empty when a tick
\* starts and when a tick has returned, whether or not the tick recorded a
\* change, and throughout setup, rate entry and the halt.
C16_StackEmptyOutsideTick ==
    pc \notin {"scan", "doChanges"} => tileChangeStackIsEmpty(pendingChanges)

\* The second tick has returned after applying two changes, and the stack
\* is empty.
C16_Witness ==
    /\ pc = "loopTest"
    /\ ticksRun = 2
    /\ applied >= 2
    /\ tileChangeStackIsEmpty(pendingChanges)

\* --------------------------------------------------------------------- C17

RECURSIVE applyInOrder(_, _)
\* The board after doChanges' writes for the changes of a sequence, made in
\* the order of the sequence.
applyInOrder(board, changes) ==
    IF changes = <<>>
      THEN board
      ELSE applyInOrder(setTileState(board, Head(changes).newState,
                                     Head(changes).point.row,
                                     Head(changes).point.col),
                        Tail(changes))

\* The changes of a stack rearranged by the permutation f of its indices.
Rearranged(stack, f) == [i \in 1 .. Len(stack) |-> stack[f[i]]]

\* The board, tiles and nalive, the reference step makes of a board.
RefBoard(board) ==
    [board EXCEPT !.tiles = RefStep(board),
                  !.nalive = Cardinality({i \in DOMAIN board.tiles :
                                             RefStep(board)[i] = ALIVE})]

\* C17: from every state of the apply phase, its first included, the
\* changes still pending (when at most MaxPending) applied in any order
\* whatever give one and the same board and nalive, which is the board
\* doChanges, popping in its LIFO order, leaves when the tick returns.
C17_ApplyOrderIrrelevant ==
    /\ pc = "doChanges" /\ Len(pendingChanges) <= MaxPending =>
         LET after == RefBoard(tickStart)
         IN  \A f \in Permutations(1 .. Len(pendingChanges)) :
               applyInOrder(logicalBoard, Rearranged(pendingChanges, f)) = after
    /\ pc = "loopTest" => logicalBoard = RefBoard(tickStart)

\* The apply phase is about to start with three deaths and a birth pending.
C17_Witness ==
    /\ pc = "doChanges"
    /\ applied = 0
    /\ Len(pendingChanges) = 4
    /\ Cardinality({i \in 1 .. 4 : pendingChanges[i].newState = DEAD}) = 3

\* --------------------------------------------------------------------- C18

\* The window shows 'X' at exactly the alive tiles and a blank elsewhere.
Rendered(board, win) ==
    /\ DOMAIN win.ch = RefCells(board)
    /\ \A p \in RefCells(board) :
         win.ch[p] = Marker(getTileState(board, p[1], p[2]))

\* C18: in every state, after any toggles of the setup and any writes of
\* the ticks, the board window shows 'X' at exactly the alive tiles and a
\* blank elsewhere; and a step draws only at tiles whose state it changed.
C18_WindowShowsBoard ==
    /\ [](Rendered(logicalBoard, physicalBoard))
    /\ [][\A p \in RefCells(logicalBoard) :
            physicalBoard'.ch[p] # physicalBoard.ch[p]
              => getTileState(logicalBoard', p[1], p[2])
                   # getTileState(logicalBoard, p[1], p[2])]_vars

\* A tick has applied births and deaths to a board the user painted with
\* the space bar, and tiles remain alive.
C18_Witness ==
    /\ pc = "loopTest"
    /\ applied >= 3
    /\ logicalBoard.nalive >= 2
    /\ \E p \in RefCells(logicalBoard) :
         physicalBoard.ch[p] = "X" /\ ~RefAlive(tickStart, p[1], p[2])
    /\ \E p \in RefCells(logicalBoard) :
         physicalBoard.ch[p] = " " /\ RefAlive(tickStart, p[1], p[2])

\* --------------------------------------------------------------------- C19

\* C19: during setup the cursor is on the board, so the tile a toggle reads
\* and writes is a tile of the board; a step that moves the cursor changes
\* no tile and not nalive; and a step that changes the board changes the
\* tile under the cursor and no other, and leaves the cursor.
C19_CursorStaysOnBoard ==
    /\ [](pc = "setUpBoard" =>
            /\ 0 <= logicalCur.row /\ logicalCur.row < logicalBoard.nrows
            /\ 0 <= logicalCur.col /\ logicalCur.col < logicalBoard.ncols
            /\ CursorTileAllocated)
    /\ [][pc = "setUpBoard" =>
            /\ logicalCur' # logicalCur => logicalBoard' = logicalBoard
            /\ logicalBoard' # logicalBoard =>
                 /\ logicalCur' = logicalCur
                 /\ DiffCells(logicalBoard, logicalBoard')
                      = {TileIndex(logicalBoard, logicalCur.row, logicalCur.col)}]_vars

\* Setup on a board of several rows and columns: the cursor has been moved
\* to the bottom right corner and the tile there toggled alive, after
\* another tile.
C19_Witness ==
    /\ pc = "setUpBoard"
    /\ logicalBoard.nrows >= 2 /\ logicalBoard.ncols >= 2
    /\ logicalCur = Point(logicalBoard.nrows - 1, logicalBoard.ncols - 1)
    /\ getTileState(logicalBoard, logicalCur.row, logicalCur.col) = ALIVE
    /\ logicalBoard.nalive >= 2

\* --------------------------------------------------------------------- C20

\* The phase the program is in, by its place in the order setup (0), rate
\* entry (1), simulation (2), halted (3), exit (4).  A program killed in
\* simulationLoop died in the simulation phase.
PhaseOf(p) ==
    CASE p \in {"setUpBoard", "undefined"} -> 0
      [] p \in {"getTicksPerSecond", "strtoul"} -> 1
      [] p \in {"simulationLoop", "doTick", "scan", "doChanges", "loopTest",
                "crashed"} -> 2
      [] p = "halted" -> 3
      [] p = "quit" -> 4

\* The steps from one phase to another that the order allows.
PhaseSteps ==
    {<<0, 1>>, <<0, 4>>, <<1, 2>>, <<1, 4>>, <<2, 3>>, <<3, 4>>}

\* C20: the program starts in setup and moves from phase to phase only in
\* the order setup, rate entry, simulation, halted, exit, leaving setup or
\* rate entry for the exit directly when the user quits or cancels; no tick
\* is entered outside the simulation phase, which is entered only from
\* rate entry when a rate has been accepted; the exit from setup or rate
\* entry is made with no tick executed and the board untouched; and from
\* the start of the simulation on the board changes only in doChanges.
C20_PhasesInOrder ==
    /\ pc = "setUpBoard"
    /\ [](PhaseOf(pc) < 2 => ticksRun = 0 /\ tick = 0)
    /\ [][/\ PhaseOf(pc') # PhaseOf(pc)
               => <<PhaseOf(pc), PhaseOf(pc')>> \in PhaseSteps
          /\ PhaseOf(pc) = 1 /\ PhaseOf(pc') = 2
               => pc = "strtoul" /\ pc' = "simulationLoop"
          /\ ticksRun' # ticksRun => PhaseOf(pc) = 2 /\ PhaseOf(pc') = 2
          /\ PhaseOf(pc) < 2 /\ PhaseOf(pc') = 4
               => ticksRun' = 0 /\ logicalBoard' = logicalBoard
          /\ PhaseOf(pc) >= 2 /\ logicalBoard' # logicalBoard
               => pc = "doChanges"]_vars

\* The program has come to its exit through every phase: two ticks were
\* executed on a painted board and the halt was shown.
C20_Witness ==
    /\ pc = "quit"
    /\ ticksRun = 2
    /\ promptWin.text = "Terminated after"
    /\ logicalBoard.nalive > 0

====
